---- MODULE Spec2Model ----
(***************************************************************************)
(* Per-conversation playback orchestrator of src/main.py.                  *)
(*                                                                         *)
(* Every handler is an asyncio coroutine.  The event loop runs one         *)
(* coroutine at a time and switches only at an await, so each action below *)
(* is the code of one handler between two consecutive awaits.  A task      *)
(* record holds a suspended coroutine: which handler it is, the chat it    *)
(* works on, the await it is parked at (pc) and its local variable nxt.    *)
(* The suspended coroutines form a bag: two coroutines parked at the same  *)
(* await with the same locals are two copies of one record.                *)
(* The messages a handler sends last, after which it touches nothing, are  *)
(* part of its last step: a handler that only answers leaves no task.      *)
(*                                                                         *)
(* A string is modelled as a sequence of tokens (a scheme, a host, an      *)
(* extension, ...), which keeps startswith / substring tests computable.   *)
(***************************************************************************)
EXTENDS Integers, Sequences, FiniteSets, Bags, TLC

\* Bounds of the model.
MaxTasks == 3       \* coroutines suspended at the same time
MaxTracks == 2      \* Track objects created in one behaviour

\* Chat ids of the groups that use the bot (supergroup ids are negative):
\* one conversation, and two for what one conversation does to another.
Chats == {-1001}
TwoChats == {-1001, -1002}

----------------------------------------------------------------------------
\* Regex & Classifier

STREAM_EXTS == {".m3u8", ".mp3", ".aac", ".m4a", ".ogg", ".opus", ".flac", ".wav"}

YT_RE == {"youtube.com/watch?v=", "youtu.be/", "music.youtube.com/"}

\* str.lower() on one token.
LowerTok(ch) ==
    CASE ch = "HTTP://" -> "http://"
      [] ch = "HTTPS://" -> "https://"
      [] ch = ".MP3" -> ".mp3"
      [] ch = "YOUTU.BE/" -> "youtu.be/"
      [] OTHER -> ch

Lower(s) == [i \in 1..Len(s) |-> LowerTok(s[i])]

RECURSIVE LStrip(_)
LStrip(s) == IF s # <<>> /\ Head(s) = " " THEN LStrip(Tail(s)) ELSE s

RECURSIVE RStrip(_)
RStrip(s) ==
    IF s # <<>> /\ s[Len(s)] = " " THEN RStrip(SubSeq(s, 1, Len(s) - 1)) ELSE s

\* str.strip()
Strip(s) == RStrip(LStrip(s))

is_url(s) ==
    LET t == Lower(Strip(s))
    IN t # <<>> /\ t[1] \in {"http://", "https://"}

\* A slip of is_stream_url: the test of the extensions is forgotten.
is_stream_url_any_url(s) == is_url(s)

is_stream_url(s) ==
    LET u == Lower(Strip(s))
    IN IF ~is_url(u) THEN FALSE
       ELSE \E i \in 1..Len(u) : u[i] \in STREAM_EXTS

is_youtube(s) ==
    LET t == Lower(Strip(s))
    IN \E i \in 1..Len(t) : t[i] \in YT_RE

\* The queries a /play or /cplay command carries.
Queries ==
    { <<"HTTP://", "radio", ".MP3", "?k">>,
      <<"https://", "youtu.be/", "x">>,
      <<"https://", "site">>,
      <<"lagu">>,
      <<>> }

----------------------------------------------------------------------------
\* State

\* Optional[Track] = None, and the value of nxt in a coroutine that has none.
NoTrack == [title |-> <<>>, source |-> <<>>, requester |-> "", uid |-> 0]

\* Track(title=query, source=query, requester=requester); uid is the identity
\* of the Python object, which tells two tracks of the same query apart.
Track(query, requester, uid) ==
    [title |-> query, source |-> query, requester |-> requester, uid |-> uid]

\* ChatState()
ChatState == [queue |-> <<>>, playing |-> NoTrack, paused |-> FALSE]

VARIABLES
    State,      \* the dict STATE of the code: chat id -> ChatState
    tasks,      \* the bag of suspended coroutines
    active,     \* transport side: the assistant is in the chat's voice call
    uids,       \* Track objects created so far
    played,     \* uids of the tracks that have been assigned to playing
    ev,         \* the transport call that completed in the last step, if one did
    pr          \* observer of a /pause followed immediately by a /resume

vars == <<State, tasks, active, uids, played, ev, pr>>

\* st(chat_id): the dict after the lookup that creates a missing entry.
st(chat_id) ==
    IF chat_id \in DOMAIN State THEN State ELSE State @@ (chat_id :> ChatState)

Task(kind, chat, pc, nxt) == [kind |-> kind, chat |-> chat, pc |-> pc, nxt |-> nxt]

Running == BagToSet(tasks)

\* The event loop takes a new handler.
Spawn == BagCardinality(tasks) < MaxTasks

\* The coroutines old (a bag) go on, as the coroutine task.
Become(old, task) == tasks' = (tasks (-) old) (+) SetToBag({task})

Start(task) == Become(EmptyBag, task)

Park(tk, pc, nxt) == Become(SetToBag({tk}), [tk EXCEPT !.pc = pc, !.nxt = nxt])

Return(tk) == tasks' = tasks (-) SetToBag({tk})

At(tk, pc) == tk \in Running /\ tk.pc = pc

\* The transport operations a handler awaits.
TransportOps == {"join", "change", "leave", "pause", "resume"}

\* The steps the observers see besides the completions of transport calls:
\* a play request that reached handle_play, the calls of
\* ensure_join_and_play, play_next and on_end, a stop, and the completion
\* of the announcement.
Observed ==
    TransportOps \cup {"handle_play", "ensure_join_and_play", "play_next", "on_end",
                       "stop_cmd", "cb_stop", "announce"}

\* The last step was none of the observed ones.
NoEv == [op |-> "none", chat |-> 0, r |-> "", trk |-> NoTrack]

\* The observer is not following a /pause.
NoWatch == [st |-> "idle", chat |-> 0, pre |-> FALSE, pauses |-> 0, resumes |-> 0]

\* The coroutines of bag b that await pc for chat_id.
Awaiting(b, chat_id, pc) ==
    LET S == {tk \in BagToSet(b) : tk.chat = chat_id /\ tk.pc = pc}
    IN BagCardinality([tk \in S |-> b[tk]])

\* The transport calls of operation pc that this step issues for chat_id.
Issued(chat_id, pc) ==
    LET d == Awaiting(tasks', chat_id, pc) - Awaiting(tasks, chat_id, pc)
    IN IF d > 0 THEN d ELSE 0

\* The observer after a step op on chat_id with outcome r.  It starts at a
\* /pause that issues its call while no other coroutine of the chat is
\* suspended, follows the confirmation of the pause, the /resume and its
\* confirmation, and gives up at any other step on that chat.
Watch(op, chat_id, r) ==
    IF /\ op = "pause_cmd"
       /\ Issued(chat_id, "pause") > 0
       /\ \A tk \in Running : tk.chat # chat_id
    THEN [st |-> "pausing", chat |-> chat_id, pre |-> State[chat_id].paused,
          pauses |-> Issued(chat_id, "pause"), resumes |-> Issued(chat_id, "resume")]
    ELSE IF pr.st \in {"idle", "done"} THEN NoWatch
    ELSE IF chat_id # pr.chat THEN pr
    ELSE IF pr.st = "pausing" /\ op = "pause" /\ r = "ok"
    THEN [pr EXCEPT !.st = "paused"]
    ELSE IF pr.st = "paused" /\ op = "resume_cmd" /\ Issued(chat_id, "resume") > 0
    THEN [pr EXCEPT !.st = "resuming",
                    !.pauses = @ + Issued(chat_id, "pause"),
                    !.resumes = @ + Issued(chat_id, "resume")]
    ELSE IF pr.st = "resuming" /\ op = "resume" /\ r = "ok"
    THEN [pr EXCEPT !.st = "done"]
    ELSE NoWatch

\* What the step leaves for the observers; the last conjunct of an action.
Log(op, chat_id, r, trk) ==
    /\ ev' = IF op \in Observed
             THEN [op |-> op, chat |-> chat_id, r |-> r, trk |-> trk]
             ELSE NoEv
    /\ pr' = Watch(op, chat_id, r)

\* Outcomes the environment can give.
JoinOutcomes == {"ok", "no_active_call", "error"}
CallOutcomes == {"ok", "error"}
MsgOutcomes == {"ok", "error"}

Init ==
    /\ State = <<>>
    /\ tasks = EmptyBag
    /\ active = [c \in TwoChats |-> FALSE]
    /\ uids = 0
    /\ played = {}
    /\ ev = NoEv
    /\ pr = NoWatch

----------------------------------------------------------------------------
\* The assignments the handlers make to one ChatState s.

\* A slip of NothingToJoin: the test of s.playing is forgotten.
NothingToJoinQueueOnly(s) == s.queue = <<>>

\* if s.playing or not s.queue: return
NothingToJoin(s) == s.playing # NoTrack \/ s.queue = <<>>

\* s.queue.append(Track(...))
Appended(s, trk) == [s EXCEPT !.queue = Append(@, trk)]

\* A slip of TakeNext: pop() in place of pop(0).
TakeLast(s) ==
    [queue |-> SubSeq(s.queue, 1, Len(s.queue) - 1),
     playing |-> s.queue[Len(s.queue)], paused |-> FALSE]

\* nxt = s.queue.pop(0); s.playing = nxt; s.paused = False
TakeNext(s) == [queue |-> Tail(s.queue), playing |-> Head(s.queue), paused |-> FALSE]

\* A slip of JoinFailed: the track goes back to the head of the queue.
JoinFailedRequeue(s) ==
    IF s.playing = NoTrack THEN s
    ELSE [s EXCEPT !.queue = <<s.playing>> \o @, !.playing = NoTrack]

\* except ...: s.playing = None
JoinFailed(s) == [s EXCEPT !.playing = NoTrack]

\* play_next with an empty queue: s.paused = False; s.playing = None
AdvanceEmpty(s) == [s EXCEPT !.paused = FALSE, !.playing = NoTrack]

\* A slip of AdvanceNext: s.queue[0] in place of s.queue.pop(0).
AdvanceNextPeeks(s) == [queue |-> s.queue, playing |-> Head(s.queue), paused |-> FALSE]

\* play_next otherwise: s.paused = False; nxt = s.queue.pop(0); s.playing = nxt
AdvanceNext(s) == [queue |-> Tail(s.queue), playing |-> Head(s.queue), paused |-> FALSE]

\* A slip of ChangeFailed: a handler that reverts and puts the track back.
ChangeFailedRequeue(s) ==
    IF s.playing = NoTrack THEN s
    ELSE [s EXCEPT !.queue = <<s.playing>> \o @, !.playing = NoTrack]

\* change_call raised: play_next has no handler, the exception leaves it.
ChangeFailed(s) == s

\* s.paused = True after pause_stream returned
PauseConfirmed(s) == [s EXCEPT !.paused = TRUE]

\* A slip of ResumeConfirmed: the flag is not cleared.
ResumeConfirmedKeeps(s) == s

\* s.paused = False after resume_stream returned
ResumeConfirmed(s) == [s EXCEPT !.paused = FALSE]

\* A slip of PauseFailed: the flag is set before the call is awaited.
PauseFailedFlips(s) == [s EXCEPT !.paused = TRUE]

\* pause_stream raised: the assignment is skipped.
PauseFailed(s) == s

\* resume_stream raised: the assignment is skipped.
ResumeFailed(s) == s

\* s.queue.clear(); s.playing = None; s.paused = False
Stopped(s) == [queue |-> <<>>, playing |-> NoTrack, paused |-> FALSE]

\* A slip of Ended: paused is not reset.
EndedKeepsPaused(s) == [s EXCEPT !.playing = NoTrack]

\* A slip of LeaveConfirmed: the reset is made once leave_group_call has
\* returned, and skipped when it raises.
LeaveConfirmedResets(s) == [queue |-> <<>>, playing |-> NoTrack, paused |-> FALSE]

\* leave_group_call returned: nothing is assigned after it.
LeaveConfirmed(s) == s

\* leave_group_call raised: except Exception: pass
LeaveFailed(s) == s

\* on_end with an empty queue: s.playing = None; s.paused = False
Ended(s) == [s EXCEPT !.playing = NoTrack, !.paused = FALSE]

\* A slip of Store: the queue is a list that all ChatState objects share.
StoreShared(chat_id, s) ==
    State' = [c \in DOMAIN st(chat_id) |->
                 IF c = chat_id THEN s ELSE [st(chat_id)[c] EXCEPT !.queue = s.queue]]

\* STATE[chat_id] = s, after the lookup st(chat_id).
Store(chat_id, s) == State' = [st(chat_id) EXCEPT ![chat_id] = s]

\* A handler that only answers.
Answer == UNCHANGED <<State, tasks, active, uids, played>>

\* A handler that looked its ChatState up and only answers.
AnswerSt(chat_id) ==
    /\ State' = st(chat_id)
    /\ UNCHANGED <<tasks, active, uids, played>>

----------------------------------------------------------------------------
\* Voice Playback

\* ensure_join_and_play up to its await of join_call.  make_stream and
\* join_call are one transport operation: a stream object that cannot be
\* built is the outcome "error" of the join.
ensure_join_and_play(tk) ==
    LET chat_id == tk.chat
        s == st(chat_id)[chat_id]
    IN IF NothingToJoin(s)
       THEN /\ Return(tk)
            /\ UNCHANGED <<State, active, uids, played>>
       ELSE /\ Store(chat_id, TakeNext(s))
            /\ Park(tk, "join", Head(s.queue))
            /\ played' = played \cup {Head(s.queue).uid}
            /\ UNCHANGED <<active, uids>>

\* join_call returns or raises.
join_call_done(tk, r) ==
    /\ At(tk, "join")
    /\ IF r = "ok"
       THEN /\ active' = [active EXCEPT ![tk.chat] = TRUE]
            /\ Park(tk, "announce", tk.nxt)
            /\ UNCHANGED <<State, uids, played>>
       ELSE /\ Store(tk.chat, JoinFailed(State[tk.chat]))
            /\ Return(tk)
            /\ UNCHANGED <<active, uids, played>>
    /\ Log("join", tk.chat, r, tk.nxt)

\* The "Now playing" message of ensure_join_and_play is sent inside the try:
\* when sending raises, the generic handler runs.
announce_done(tk, r) ==
    /\ At(tk, "announce")
    /\ IF r = "ok"
       THEN /\ Return(tk)
            /\ UNCHANGED <<State, active, uids, played>>
       ELSE /\ Store(tk.chat, JoinFailed(State[tk.chat]))
            /\ Return(tk)
            /\ UNCHANGED <<active, uids, played>>
    /\ Log("announce", tk.chat, r, tk.nxt)

\* play_next up to its first await, run by the coroutines old as a
\* coroutine of the given kind.
play_next(old, kind, chat_id) ==
    LET s == st(chat_id)[chat_id]
    IN IF s.queue = <<>>
       THEN /\ Store(chat_id, AdvanceEmpty(s))
            /\ Become(old, Task(kind, chat_id, "leave", NoTrack))
            /\ UNCHANGED <<active, uids, played>>
       ELSE /\ Store(chat_id, AdvanceNext(s))
            /\ Become(old, Task(kind, chat_id, "change", Head(s.queue)))
            /\ played' = played \cup {Head(s.queue).uid}
            /\ UNCHANGED <<active, uids>>

\* change_call returns or raises.  The transport changes the stream only of
\* a call it is in.  skip_cmd and the skip button answer afterwards, on_end
\* swallows the exception.
change_call_done(tk, r) ==
    /\ At(tk, "change")
    /\ r = "ok" => active[tk.chat]
    /\ Store(tk.chat, IF r = "ok" THEN State[tk.chat] ELSE ChangeFailed(State[tk.chat]))
    /\ Return(tk)
    /\ UNCHANGED <<active, uids, played>>
    /\ Log("change", tk.chat, r, tk.nxt)

\* leave_group_call returns or raises; the exception is swallowed.  The
\* transport leaves only a call it is in.
leave_done(tk, r) ==
    /\ At(tk, "leave")
    /\ r = "ok" => active[tk.chat]
    /\ active' = IF r = "ok" THEN [active EXCEPT ![tk.chat] = FALSE] ELSE active
    /\ Store(tk.chat, IF r = "ok" THEN LeaveConfirmed(State[tk.chat])
                                  ELSE LeaveFailed(State[tk.chat]))
    /\ Return(tk)
    /\ UNCHANGED <<uids, played>>
    /\ Log("leave", tk.chat, r, NoTrack)

\* The stream-ended notification of a call the transport is streaming in.
on_end(chat_id) ==
    /\ Spawn
    /\ active[chat_id]
    /\ LET s == st(chat_id)[chat_id]
       IN IF s.queue # <<>>
          THEN play_next(EmptyBag, "on_end", chat_id)
          ELSE /\ Store(chat_id, Ended(s))
               /\ Start(Task("on_end", chat_id, "leave", NoTrack))
               /\ UNCHANGED <<active, uids, played>>
    /\ Log("on_end", chat_id, "", st(chat_id)[chat_id].playing)

----------------------------------------------------------------------------
\* Commands

\* handle_play up to its first await.
handle_play(target_chat_id, query) ==
    IF query = <<>>
    THEN Answer
    ELSE IF is_stream_url(query)
    THEN /\ uids < MaxTracks
         /\ LET s == Appended(st(target_chat_id)[target_chat_id],
                              Track(query, "user", uids + 1))
            IN /\ Store(target_chat_id, s)
               /\ IF s.playing = NoTrack
                  THEN Start(Task("play", target_chat_id, "stream_reply", NoTrack))
                  ELSE UNCHANGED tasks
         /\ uids' = uids + 1
         /\ UNCHANGED <<active, played>>
    ELSE Answer

\* The reply "Stream masuk" was sent, or sending it raised and the handler
\* ended there.
handle_play_replied(tk, r) ==
    /\ At(tk, "stream_reply")
    /\ IF r = "ok"
       THEN ensure_join_and_play(tk)
       ELSE /\ Return(tk)
            /\ UNCHANGED <<State, active, uids, played>>
    /\ LET s == State[tk.chat]
       IN Log(IF r = "ok" THEN "ensure_join_and_play" ELSE "stream_reply", tk.chat, r,
              IF NothingToJoin(s) THEN NoTrack ELSE Head(s.queue))

\* A private chat (positive id), where /play only answers.
PrivateChats == {777}

play_cmd(chat_id, query) ==
    /\ Spawn
    /\ IF chat_id > 0
       THEN Answer
       ELSE handle_play(chat_id, query)
    /\ IF chat_id > 0
       THEN Log("play_cmd", chat_id, "", NoTrack)
       ELSE Log("handle_play", chat_id, "", Track(query, "user", 0))

\* The target that resolve_target_chat_id could not resolve.
Unresolved == 0

cplay_cmd(target_chat_id, query) ==
    /\ Spawn
    /\ IF target_chat_id = Unresolved
       THEN Answer
       ELSE handle_play(target_chat_id, query)
    /\ IF target_chat_id = Unresolved
       THEN Log("cplay_cmd", target_chat_id, "", NoTrack)
       ELSE Log("handle_play", target_chat_id, "", Track(query, "user", 0))

pause_cmd(chat_id) ==
    /\ Spawn
    /\ LET s == st(chat_id)[chat_id]
       IN IF s.playing = NoTrack
          THEN AnswerSt(chat_id)
          ELSE /\ Start(Task("pause", chat_id, "pause", NoTrack))
               /\ UNCHANGED <<State, active, uids, played>>
    /\ Log("pause_cmd", chat_id, "", NoTrack)

resume_cmd(chat_id) ==
    /\ Spawn
    /\ LET s == st(chat_id)[chat_id]
       IN IF s.playing = NoTrack
          THEN AnswerSt(chat_id)
          ELSE /\ Start(Task("resume", chat_id, "resume", NoTrack))
               /\ UNCHANGED <<State, active, uids, played>>
    /\ Log("resume_cmd", chat_id, "", NoTrack)

\* pause_stream returns or raises; the transport pauses only a call it is in.
pause_stream_done(tk, r) ==
    /\ At(tk, "pause")
    /\ r = "ok" => active[tk.chat]
    /\ Store(tk.chat, IF r = "ok" THEN PauseConfirmed(State[tk.chat])
                                  ELSE PauseFailed(State[tk.chat]))
    /\ Return(tk)
    /\ UNCHANGED <<active, uids, played>>
    /\ Log("pause", tk.chat, r, NoTrack)

\* resume_stream returns or raises.
resume_stream_done(tk, r) ==
    /\ At(tk, "resume")
    /\ r = "ok" => active[tk.chat]
    /\ Store(tk.chat, IF r = "ok" THEN ResumeConfirmed(State[tk.chat])
                                  ELSE ResumeFailed(State[tk.chat]))
    /\ Return(tk)
    /\ UNCHANGED <<active, uids, played>>
    /\ Log("resume", tk.chat, r, NoTrack)

skip_cmd(chat_id) ==
    /\ Spawn
    /\ LET s == st(chat_id)[chat_id]
       IN IF s.playing = NoTrack
          THEN AnswerSt(chat_id)
          ELSE /\ Start(Task("skip", chat_id, "skip_reply", NoTrack))
               /\ UNCHANGED <<State, active, uids, played>>
    /\ Log("skip_cmd", chat_id, "", NoTrack)

\* "Skipping..." was sent (then play_next runs), or sending it raised.
skip_replied(tk, r) ==
    /\ At(tk, "skip_reply")
    /\ IF r = "ok"
       THEN play_next(SetToBag({tk}), tk.kind, tk.chat)
       ELSE /\ Return(tk)
            /\ UNCHANGED <<State, active, uids, played>>
    /\ Log(IF r = "ok" THEN "play_next" ELSE "skip_reply", tk.chat, r,
           State[tk.chat].playing)

stop_cmd(chat_id) ==
    /\ Spawn
    /\ Store(chat_id, Stopped(st(chat_id)[chat_id]))
    /\ Start(Task("stop", chat_id, "leave", NoTrack))
    /\ UNCHANGED <<active, uids, played>>
    /\ Log("stop_cmd", chat_id, "", NoTrack)

queue_cmd(chat_id) ==
    /\ Spawn
    /\ AnswerSt(chat_id)
    /\ Log("queue_cmd", chat_id, "", NoTrack)

\* callbacks, by the action of the button.  Each branch is the code of the
\* command of the same name, so its coroutine is a task of that kind.
cb_pause(chat_id) ==
    /\ Spawn
    /\ LET s == st(chat_id)[chat_id]
       IN IF s.playing = NoTrack
          THEN AnswerSt(chat_id)
          ELSE /\ IF s.paused
                  THEN Start(Task("resume", chat_id, "resume", NoTrack))
                  ELSE Start(Task("pause", chat_id, "pause", NoTrack))
               /\ UNCHANGED <<State, active, uids, played>>
    /\ Log("cb_pause", chat_id, "", NoTrack)

cb_skip(chat_id) ==
    /\ Spawn
    /\ LET s == st(chat_id)[chat_id]
       IN IF s.playing = NoTrack
          THEN AnswerSt(chat_id)
          ELSE /\ Start(Task("skip", chat_id, "skip_reply", NoTrack))
               /\ UNCHANGED <<State, active, uids, played>>
    /\ Log("cb_skip", chat_id, "", NoTrack)

cb_stop(chat_id) ==
    /\ Spawn
    /\ Store(chat_id, Stopped(st(chat_id)[chat_id]))
    /\ Start(Task("stop", chat_id, "leave", NoTrack))
    /\ UNCHANGED <<active, uids, played>>
    /\ Log("cb_stop", chat_id, "", NoTrack)

cb_queue(chat_id) ==
    /\ Spawn
    /\ AnswerSt(chat_id)
    /\ Log("cb_queue", chat_id, "", NoTrack)

\* The steps of the handlers serving the chats C.
Step(C) ==
    \/ \E chat_id \in C \cup PrivateChats, query \in Queries :
            play_cmd(chat_id, query)
    \/ \E chat_id \in C \cup {Unresolved}, query \in Queries :
            cplay_cmd(chat_id, query)
    \/ \E chat_id \in C : pause_cmd(chat_id)
    \/ \E chat_id \in C : resume_cmd(chat_id)
    \/ \E chat_id \in C : skip_cmd(chat_id)
    \/ \E chat_id \in C : stop_cmd(chat_id)
    \/ \E chat_id \in C : queue_cmd(chat_id)
    \/ \E chat_id \in C : on_end(chat_id)
    \/ \E chat_id \in C : cb_pause(chat_id)
    \/ \E chat_id \in C : cb_skip(chat_id)
    \/ \E chat_id \in C : cb_stop(chat_id)
    \/ \E chat_id \in C : cb_queue(chat_id)
    \/ \E tk \in Running, r \in MsgOutcomes : handle_play_replied(tk, r)
    \/ \E tk \in Running, r \in JoinOutcomes : join_call_done(tk, r)
    \/ \E tk \in Running, r \in MsgOutcomes : announce_done(tk, r)
    \/ \E tk \in Running, r \in CallOutcomes : pause_stream_done(tk, r)
    \/ \E tk \in Running, r \in CallOutcomes : resume_stream_done(tk, r)
    \/ \E tk \in Running, r \in MsgOutcomes : skip_replied(tk, r)
    \/ \E tk \in Running, r \in CallOutcomes : change_call_done(tk, r)
    \/ \E tk \in Running, r \in CallOutcomes : leave_done(tk, r)

Next == Step(Chats)

Spec == Init /\ [][Next]_vars

\* The same handlers serving two conversations.
NextTwoChats == Step(TwoChats)

SpecTwoChats == Init /\ [][NextTwoChats]_vars

\* /play and /cplay requests alone, every join_call of which returns: no
\* other command, no button and no notification arrives.
NextPlays ==
    \/ \E chat_id \in Chats \cup PrivateChats, query \in Queries :
            play_cmd(chat_id, query)
    \/ \E chat_id \in Chats \cup {Unresolved}, query \in Queries :
            cplay_cmd(chat_id, query)
    \/ \E tk \in Running, r \in MsgOutcomes : handle_play_replied(tk, r)
    \/ \E tk \in Running : join_call_done(tk, "ok")
    \/ \E tk \in Running, r \in MsgOutcomes : announce_done(tk, r)

SpecPlays == Init /\ [][NextPlays]_vars

----------------------------------------------------------------------------
\* Properties

\* The uids of the tracks of a queue.
QueueUids(q) == {q[i].uid : i \in 1..Len(q)}

\* The step completes (or moves on) a copy of the suspended coroutine tk.
Leaves(tk) == CopiesIn(tk, tasks') < CopiesIn(tk, tasks)

\* C1: in every reachable state, paused = true implies that playing is
\* present, for every conversation.
C1_PausedImpliesPlaying ==
    \A c \in DOMAIN State : State[c].paused => State[c].playing # NoTrack

\* C2: for one conversation, at most one join or change-stream call is
\* outstanding at any time.
C2_OneJoinOrAdvance ==
    \A c \in TwoChats :
        Awaiting(tasks, c, "join") + Awaiting(tasks, c, "change") <= 1

\* C3: while a transport call for a conversation is outstanding (its
\* coroutine stays suspended over the step), no step writes the queue,
\* playing or paused of that conversation.
C3_NoWriteDuringCall ==
    [][\A tk \in Running :
          (tk.pc \in TransportOps /\ ~Leaves(tk))
              => State'[tk.chat] = State[tk.chat]]_vars

\* C4: when a Stop completes (its leave call returned or raised), the
\* conversation is Idle: queue empty, playing absent, paused false.
C4_StopYieldsIdle ==
    [][\A tk \in Running :
          (tk.kind = "stop" /\ tk.pc = "leave" /\ Leaves(tk))
              => State'[tk.chat] = ChatState]_vars

\* C5: tracks are served in arrival order (uids number the tracks in the
\* order they were enqueued): the queue holds its tracks in arrival order,
\* and the playing track arrived before every track still in the queue.
C5_ServedInArrivalOrder ==
    \A c \in DOMAIN State :
        LET s == State[c]
        IN /\ \A i, j \in 1..Len(s.queue) :
                  i < j => s.queue[i].uid < s.queue[j].uid
           /\ s.playing # NoTrack =>
                  \A i \in 1..Len(s.queue) : s.playing.uid < s.queue[i].uid

\* C5 happens: a track is playing while a later one waits in the queue.
C5_Witness ==
    \E c \in DOMAIN State : State[c].playing # NoTrack /\ State[c].queue # <<>>

\* C6: a track is never twice in the queue, never in the queue and playing
\* at once, and no track that has been playing is in a queue again.
C6_AtMostOnePlace ==
    \A c \in DOMAIN State :
        LET s == State[c]
        IN /\ Cardinality(QueueUids(s.queue)) = Len(s.queue)
           /\ s.playing # NoTrack => s.playing.uid \notin QueueUids(s.queue)
           /\ QueueUids(s.queue) \cap played = {}

\* C6 happens: a join or a change-stream failed for a track that had been
\* dequeued into playing, and the track is in no queue.
C6_Witness ==
    /\ ev.op \in {"join", "change"}
    /\ ev.r # "ok"
    /\ ev.trk.uid \in played
    /\ \A c \in DOMAIN State : ev.trk.uid \notin QueueUids(State[c].queue)

\* C7: a step in which the join fails ("no active call" or any other error)
\* leaves playing absent and the queue as it was, without the track that
\* was being joined.
C7_JoinFailureDrops ==
    [][(ev'.op = "join" /\ ev'.r # "ok") =>
          /\ State'[ev'.chat].playing = NoTrack
          /\ State'[ev'.chat].queue = State[ev'.chat].queue
          /\ ev'.trk.uid \notin QueueUids(State'[ev'.chat].queue)]_vars

\* C7 happens: a join has just failed while another track waits.
C7_Witness ==
    /\ ev.op = "join"
    /\ ev.r \in {"no_active_call", "error"}
    /\ State[ev.chat].queue # <<>>

\* C8: after the change-stream call of an Advance failed, playing is absent.
C8_ChangeFailureReverts ==
    (ev.op = "change" /\ ev.r = "error") => State[ev.chat].playing = NoTrack

\* C9: a step in which the pause or resume call fails changes nothing of
\* the conversation; one in which it succeeds changes paused only, to true
\* for a pause and to false for a resume.
C9_PauseResumeFailureKeeps ==
    [][ev'.op \in {"pause", "resume"} =>
          State'[ev'.chat] =
              IF ev'.r = "ok"
              THEN [State[ev'.chat] EXCEPT !.paused = (ev'.op = "pause")]
              ELSE State[ev'.chat]]_vars

\* C9 happens: a pause call has just failed on a playing, unpaused
\* conversation.
C9_Witness ==
    /\ ev.op = "pause"
    /\ ev.r = "error"
    /\ State[ev.chat].playing # NoTrack
    /\ ~State[ev.chat].paused

\* C10, as claimed: after a /pause followed immediately by a /resume, both
\* confirmed, paused has the value it had before the /pause, and one pause
\* call and one resume call were issued.
C10_PauseResumeRestores ==
    pr.st = "done" =>
        /\ State[pr.chat].paused = pr.pre
        /\ pr.pauses = 1
        /\ pr.resumes = 1

\* C10, amended: after a /pause followed immediately by a /resume, both
\* confirmed, paused is false, which is the value it had before the /pause
\* when the conversation was not paused already, and one pause call and
\* one resume call were issued.
C10_PauseResumeEndsUnpaused ==
    pr.st = "done" =>
        /\ ~State[pr.chat].paused
        /\ (~pr.pre => State[pr.chat].paused = pr.pre)
        /\ pr.pauses = 1
        /\ pr.resumes = 1

\* C10 happens: the pair has just completed on a conversation that was not
\* paused before it.
C10_Witness ==
    /\ pr.st = "done"
    /\ ~pr.pre
    /\ State[pr.chat].playing # NoTrack

\* C11: a call of ensure_join_and_play on a conversation whose playing is
\* set or whose queue is empty issues no transport call and leaves queue,
\* playing and paused as they were.  A call issues at most one join, and one
\* that joins leaves playing set, so that a call that follows it at once
\* is a no-op: two calls in a row perform at most one join.
C11_GuardedJoinIsNoOp ==
    [][ev'.op = "ensure_join_and_play" =>
          LET c == ev'.chat
              s == State[c]
          IN /\ (s.playing # NoTrack \/ s.queue = <<>>) =>
                    /\ State'[c] = s
                    /\ \A op \in TransportOps : Issued(c, op) = 0
             /\ Issued(c, "join") <= 1
             /\ Issued(c, "join") = 1 => State'[c].playing # NoTrack]_vars

\* C11 happens: ensure_join_and_play has just returned without a join on a
\* conversation that has a playing track and a track waiting in the queue.
C11_Witness ==
    /\ ev.op = "ensure_join_and_play"
    /\ ev.trk = NoTrack
    /\ State[ev.chat].playing # NoTrack
    /\ State[ev.chat].queue # <<>>

\* C12: a step that runs play_next (after the answer of a skip, or from
\* on_end) on a conversation with a playing track and a non-empty queue
\* discards the playing track, makes the head of the queue the playing
\* track, removes that head and nothing else from the queue, clears paused,
\* and issues one change-stream call, for the new track, and no join.
C12_AdvanceTakesHead ==
    [][(/\ ev'.op \in {"play_next", "on_end"}
        /\ State[ev'.chat].playing # NoTrack
        /\ State[ev'.chat].queue # <<>>) =>
          LET c == ev'.chat
              s == State[c]
          IN /\ State'[c] = [queue |-> Tail(s.queue), playing |-> Head(s.queue),
                             paused |-> FALSE]
             /\ State'[c].playing # s.playing
             /\ s.playing.uid \notin QueueUids(State'[c].queue)
             /\ Issued(c, "change") = 1
             /\ \E tk \in BagToSet(tasks') :
                    /\ tk.chat = c
                    /\ tk.pc = "change"
                    /\ tk.nxt.source = Head(s.queue).source
                    /\ tk.nxt = Head(s.queue)
                    /\ CopiesIn(tk, tasks') = CopiesIn(tk, tasks) + 1
             /\ Issued(c, "join") = 0
             /\ Issued(c, "leave") = 0]_vars

\* C12 happens: play_next has just replaced a playing track (ev.trk) by the
\* track that waited behind it, and awaits the change-stream for it.
C12_Witness ==
    /\ ev.op \in {"play_next", "on_end"}
    /\ ev.trk # NoTrack
    /\ State[ev.chat].playing # NoTrack
    /\ State[ev.chat].playing.uid > ev.trk.uid
    /\ \E tk \in Running :
           tk.chat = ev.chat /\ tk.pc = "change" /\ tk.nxt = State[ev.chat].playing

\* C13: a step in which on_end runs for a conversation whose queue is empty
\* leaves the conversation Idle (queue empty, playing absent, paused false)
\* and issues one leave call and no other transport call; the step in which
\* that leave returns or raises writes nothing and issues nothing.
C13_EndedOnEmptyQueue ==
    [][/\ (ev'.op = "on_end" /\ State[ev'.chat].queue = <<>>) =>
              /\ State'[ev'.chat] = ChatState
              /\ Issued(ev'.chat, "leave") = 1
              /\ \A op \in TransportOps \ {"leave"} : Issued(ev'.chat, op) = 0
       /\ \A tk \in Running :
              (tk.kind = "on_end" /\ tk.pc = "leave" /\ Leaves(tk)) =>
                  /\ State'[tk.chat] = State[tk.chat]
                  /\ \A op \in TransportOps : Issued(tk.chat, op) = 0]_vars

\* C13 happens: on_end has just run on an empty queue while a track was
\* playing, and its coroutine awaits the leave.
C13_Witness ==
    /\ ev.op = "on_end"
    /\ ev.trk # NoTrack
    /\ State[ev.chat] = ChatState
    /\ \E tk \in Running : tk.kind = "on_end" /\ tk.chat = ev.chat /\ tk.pc = "leave"

\* C14: after two accepted /play requests A then B and nothing else, with
\* the join succeeding, once every handler has completed A is the playing
\* track, B is the queue (at position 1), and one join was issued, for A
\* (played holds the tracks a join was issued for).
C14_FirstPlaysSecondWaits ==
    \A c \in Chats :
        (uids = 2 /\ tasks = EmptyBag /\ active[c]) =>
            /\ State[c].playing # NoTrack
            /\ State[c].playing.uid = 1
            /\ Len(State[c].queue) = 1
            /\ State[c].queue[1].uid = 2
            /\ played = {1}

\* The ChatState that st(chat_id) returns in the dict S.
Conv(S, chat_id) == IF chat_id \in DOMAIN S THEN S[chat_id] ELSE ChatState

\* C15: every step that changes the queue, playing or paused of a
\* conversation D is a step of an operation that targets D (ev'.chat is the
\* target of the step's operation): an operation that targets another
\* conversation C, be it a command, a button, a notification or the
\* completion or failure of a transport call, leaves D as it was.
C15_OtherConversationsUnchanged ==
    [][\A d \in TwoChats :
          Conv(State', d) # Conv(State, d) => (ev'.op # "none" /\ ev'.chat = d)]_vars

\* C15 happens: a join has just failed for one conversation while another
\* conversation has a playing track.
C15_Witness ==
    /\ ev.op = "join"
    /\ ev.r # "ok"
    /\ \E d \in DOMAIN State \ {ev.chat} : State[d].playing # NoTrack

\* C16: a step in which leave_group_call completes, for a Stop, for a
\* play_next on an empty queue or for an on_end on an empty queue, leaves
\* queue, playing and paused as the reset before the call made them,
\* whether the call returned or raised; the handler ends there: nothing of
\* the failure reaches its caller, and no other call is issued.
C16_LeaveFailureSwallowed ==
    [][ev'.op = "leave" =>
          /\ State'[ev'.chat] = State[ev'.chat]
          /\ BagCardinality(tasks') = BagCardinality(tasks) - 1
          /\ \E tk \in Running :
                 /\ tk.kind \in {"stop", "skip", "on_end"}
                 /\ tk.chat = ev'.chat
                 /\ tk.pc = "leave"
                 /\ tasks' = tasks (-) SetToBag({tk})]_vars

\* C16 happens: a leave call has just failed, and the conversation, in
\* which a track had been playing, is Idle.
C16_Witness ==
    /\ ev.op = "leave"
    /\ ev.r = "error"
    /\ played # {}
    /\ State[ev.chat] = ChatState

\* No coroutine of the conversation is suspended: every operation and every
\* transport call for it has completed.
Quiescent(chat_id) == \A tk \in Running : tk.chat # chat_id

\* C17: a conversation without a playing track has a non-empty queue only
\* while an operation for it is outstanding: once all of them have
\* completed, playing is present or the queue is empty.
C17_IdleQueueOnlyTransient ==
    \A c \in DOMAIN State :
        Quiescent(c) => (State[c].playing # NoTrack \/ State[c].queue = <<>>)

\* The case C17 names: a join has just failed, a track enqueued during the
\* join waits, and nothing is outstanding for the conversation.
C17_StalledAfterFailedJoin ==
    /\ ev.op = "join"
    /\ ev.r # "ok"
    /\ Quiescent(ev.chat)
    /\ State[ev.chat].playing = NoTrack
    /\ State[ev.chat].queue # <<>>

\* The query carries one of the stream extensions.
HasStreamExt(q) == \E i \in 1..Len(q) : Lower(Strip(q))[i] \in STREAM_EXTS

\* The query is not classified as a playable stream: it is empty, a search
\* phrase (no URL), or a URL without a stream extension, which is a
\* video-host link or an unplayable URL.
NotPlayable(q) == q = <<>> \/ ~is_url(q) \/ ~HasStreamExt(q)

\* C18: a step in which handle_play serves a request (of /play or /cplay)
\* whose query is not classified as a playable stream changes no
\* conversation, starts no coroutine and issues no transport call.
C18_OnlyStreamsFeedQueue ==
    [][(ev'.op = "handle_play" /\ NotPlayable(ev'.trk.source)) =>
          /\ State' = State
          /\ tasks' = tasks
          /\ \A op \in TransportOps : Issued(ev'.chat, op) = 0]_vars

\* C18 happens: handle_play has just served a video-host link for a
\* conversation that has a playing track and a track in its queue.
C18_Witness ==
    /\ ev.op = "handle_play"
    /\ is_youtube(ev.trk.source)
    /\ NotPlayable(ev.trk.source)
    /\ ev.chat \in DOMAIN State
    /\ State[ev.chat].playing # NoTrack
    /\ State[ev.chat].queue # <<>>

\* C19: a step issues a change-stream call for a conversation only while
\* the transport is in the conversation's call: a join for it has
\* succeeded and no leave has succeeded since.
C19_ChangeOnlyInActiveCall ==
    [][\A c \in TwoChats : Issued(c, "change") > 0 => active[c]]_vars

\* The case C19 names: a change-stream call is outstanding while the join
\* of ensure_join_and_play is still outstanding and no call is active.
C19_ChangeDuringJoin ==
    \E c \in TwoChats :
        /\ ~active[c]
        /\ Awaiting(tasks, c, "join") > 0
        /\ Awaiting(tasks, c, "change") > 0

\* C20: whenever no operation is outstanding for a conversation and the
\* transport is in its call (a join succeeded and no leave has succeeded
\* since), playing is present.
C20_StreamingImpliesPlaying ==
    \A c \in DOMAIN State :
        (Quiescent(c) /\ active[c]) => State[c].playing # NoTrack

\* The case C20 names: the join of a track succeeded and its announcement
\* has just been sent, nothing is outstanding, the transport streams the
\* track, and playing is absent.
C20_StreamingWithoutPlaying ==
    /\ ev.op = "announce"
    /\ ev.r = "ok"
    /\ Quiescent(ev.chat)
    /\ active[ev.chat]
    /\ State[ev.chat].playing = NoTrack

====
